---- MODULE Spec2Model ----
(***************************************************************************)
(* State-machine model of AgentEvaluator (src/evaluate_agents.py): the     *)
(* bounded-retry backend call, the per-instruction evaluation, the batch   *)
(* loop of run_evaluation and the single save at its end.                  *)
(*                                                                         *)
(* Python values are modelled as follows.                                  *)
(*   str            a sequence of one-character strings                    *)
(*   None           the tuple <<"None">> (no text has that shape)          *)
(*   dict           a function; an optional key is a key of its DOMAIN     *)
(*   float          a tuple <<numerator, denominator>>                     *)
(*   exception e    a string naming its class                              *)
(*   error message  a tuple of its parts                                   *)
(***************************************************************************)
EXTENDS Integers, Sequences, FiniteSets, TLC

VARIABLES
    config,        \* self.config
    instructions,  \* self.instructions
    results,       \* self.results
    pc,            \* position of the control flow
    it,            \* number of instructions the for loop of run_evaluation has taken
    version,       \* agent_version of the _evaluate_instruction in progress
    attempt,       \* loop variable of _call_agent_with_retry
    last_error,    \* last_error of _call_agent_with_retry
    wait_time,     \* wait_time of _call_agent_with_retry
    ret,           \* (response_text, error) returned by _call_agent_with_retry
    result_v1,     \* local result_v1 of run_evaluation
    result_v2,     \* local result_v2 of run_evaluation
    save_calls,    \* number of invocations of _save_results
    trace,         \* requests.post (attempt, endpoint) and time.sleep (seconds)
                   \* calls of the call in progress
    calls,         \* (instruction index, version) of every _evaluate_instruction entered
    finished,      \* (instruction index, version) of every _evaluate_instruction returned
    suite_file,    \* the file config["instructions_file"] names
    json_file,     \* results_dir/evaluation_results.json
    csv_file,      \* results_dir/evaluation_results.csv
    report_file,   \* results_dir/evaluation_report.md
    chart_files,   \* the charts plt.savefig writes to results_dir
    score_in,      \* arguments of a metric computation taken on its own
    score_out      \* its MetricSet and the warnings it logged

\* the files the evaluator reads and writes
fileVars == <<suite_file, json_file, csv_file, report_file, chart_files>>

\* the files generate_report writes
reportVars == <<report_file, chart_files>>

\* a metric computation taken on its own
scoreVars == <<score_in, score_out>>

vars == <<config, instructions, results, pc, it, version, attempt, last_error,
          wait_time, ret, result_v1, result_v2, save_calls, trace, calls, finished,
          fileVars, scoreVars>>

----------------------------------------------------------------------------
(* Bounds of the model *)

MaxInstructions == 2
MaxRetries == 3

----------------------------------------------------------------------------
(* Python values *)

None == <<"None">>

Get(d, k, default) == IF k \in DOMAIN d THEN d[k] ELSE default

Versions == {"v1", "v2"}

\* exceptions of requests.post / raise_for_status caught by the except clause
RequestExceptions == {"ConnectionError", "Timeout", "HTTPError"}

\* bodies of a success-status reply: the content field of the parsed reply
Contents == {None, <<>>, <<"A", " ", "b">>}

\* expected_response values of an instruction that carries the key
ExpectedResponses == {None, <<"a", " ", "b">>}

----------------------------------------------------------------------------
(* str methods used by _evaluate_instruction and _calculate_metrics *)

Lower(c) == IF c = "A" THEN "a" ELSE IF c = "B" THEN "b" ELSE c

\* a lower() that leaves every character as it is
LowerText_Identity(s) == s

\* str.lower()
LowerText(s) == [i \in 1..Len(s) |-> Lower(s[i])]

RECURSIVE SplitFrom(_, _, _)
SplitFrom(s, i, word) ==
    IF i > Len(s)
    THEN IF word = <<>> THEN <<>> ELSE <<word>>
    ELSE IF s[i] = " "
         THEN IF word = <<>>
              THEN SplitFrom(s, i + 1, <<>>)
              ELSE <<word>> \o SplitFrom(s, i + 1, <<>>)
         ELSE SplitFrom(s, i + 1, Append(word, s[i]))

\* str.split() without argument: the maximal runs of non-whitespace characters
Split(s) == SplitFrom(s, 1, <<>>)

\* set(list)
ToSet(seq) == {seq[i] : i \in 1..Len(seq)}

\* bool(s): the text has a character, whitespace or not
StripNonEmpty_LenOnly(s) == Len(s) > 0

\* bool(s.strip()): the text has a character that is not whitespace
StripNonEmpty(s) == \E i \in 1..Len(s) : s[i] # " "

Max(a, b) == IF a >= b THEN a ELSE b

Zero == <<0, 1>>

----------------------------------------------------------------------------
(* _calculate_metrics.  sentence_bleu and Rouge.get_scores are library     *)
(* calls: their values are kept as terms over their arguments, and each    *)
(* may raise, which the two flags say.                                     *)

\* nltk's sentence_bleu([reference], hypothesis, smoothing_function): 0 when
\* the hypothesis shares no token with the reference (no unigram matches, so
\* the smoothing is never applied), otherwise a score kept as a term
sentence_bleu(reference, hypothesis) ==
    IF ToSet(reference) \cap ToSet(hypothesis) = {}
    THEN Zero
    ELSE <<"sentence_bleu", reference, hypothesis>>

MetricFields == {"response_length", "expected_length", "length_ratio",
                 "jaccard_similarity", "bleu_score",
                 "rouge_1", "rouge_2", "rouge_l"}

\* the BLEU and the ROUGE computation inside one try block: an exception of
\* either leaves all four scores at 0.0
_calculate_metrics_SharedTry(response, expected, response_tokens, expected_tokens, response_lower_words, expected_lower_words, bleu_raises, rouge_raises) ==
    LET intersection == Cardinality(response_lower_words \cap expected_lower_words)
        union == Cardinality(response_lower_words \cup expected_lower_words)
        called == StripNonEmpty(response) /\ StripNonEmpty(expected)
        raised == bleu_raises \/ (rouge_raises /\ called)
        rouge(kind) == IF called /\ ~raised THEN <<kind, response, expected>> ELSE Zero
    IN  [response_length |-> Len(response),
         expected_length |-> Len(expected),
         length_ratio |-> <<Len(response), Max(Len(expected), 1)>>,
         jaccard_similarity |-> IF union > 0 THEN <<intersection, union>> ELSE Zero,
         bleu_score |-> IF raised THEN Zero
                        ELSE sentence_bleu(expected_tokens, response_tokens),
         rouge_1 |-> rouge("rouge-1"),
         rouge_2 |-> rouge("rouge-2"),
         rouge_l |-> rouge("rouge-l")]

_calculate_metrics(response, expected, response_tokens, expected_tokens, response_lower_words, expected_lower_words, bleu_raises, rouge_raises) ==
    LET intersection == Cardinality(response_lower_words \cap expected_lower_words)
        union == Cardinality(response_lower_words \cup expected_lower_words)
        scored == ~rouge_raises /\ StripNonEmpty(response) /\ StripNonEmpty(expected)
        rouge(kind) == IF scored THEN <<kind, response, expected>> ELSE Zero
    IN  [response_length |-> Len(response),
         expected_length |-> Len(expected),
         length_ratio |-> <<Len(response), Max(Len(expected), 1)>>,
         jaccard_similarity |-> IF union > 0 THEN <<intersection, union>> ELSE Zero,
         bleu_score |-> IF bleu_raises THEN Zero
                        ELSE sentence_bleu(expected_tokens, response_tokens),
         rouge_1 |-> rouge("rouge-1"),
         rouge_2 |-> rouge("rouge-2"),
         rouge_l |-> rouge("rouge-l")]

\* the logger.warning calls of _calculate_metrics: one per except clause
\* entered; get_scores can only raise where it is called
MetricWarnings(response, expected, bleu_raises, rouge_raises) ==
    (IF bleu_raises THEN {"Error calculating BLEU score"} ELSE {})
    \cup (IF rouge_raises /\ StripNonEmpty(response) /\ StripNonEmpty(expected)
          THEN {"Error calculating ROUGE scores"} ELSE {})

----------------------------------------------------------------------------
(* _call_agent_with_retry *)

\* range(max_retries + 1)
HasNextAttempt_OffByOne(a, max_retries) == a <= max_retries

\* range(self.config["max_retries"]) has a next value
HasNextAttempt(a, max_retries) == a < max_retries

\* a linear backoff, retry_delay * (attempt + 1)
WaitTime_Linear(retry_delay, a) == retry_delay * (a + 1)

\* wait_time = self.config["retry_delay"] * (2 ** attempt)
WaitTime(retry_delay, a) == retry_delay * (2 ^ a)

\* f"Failed after {max_retries} attempts: {str(last_error)}"
ErrorMessage(max_retries, e) == <<"Failed after", max_retries, "attempts", e>>

----------------------------------------------------------------------------
(* The state after AgentEvaluator.__init__ *)

\* an instruction of the suite; expected_response is an optional key
Instruction(i, with_expected, expected) ==
    LET base == [id |-> i, type |-> "test", title |-> "Test Instruction",
                 description |-> "A test instruction.", difficulty |-> "easy"]
    IN  IF with_expected THEN base @@ [expected_response |-> expected] ELSE base

InstructionsAt(i) ==
    {Instruction(i, FALSE, None)} \cup {Instruction(i, TRUE, e) : e \in ExpectedResponses}

\* the suites _load_instructions can return: any list, the empty one included
Suites ==
    UNION {{s \in [1..k -> UNION {InstructionsAt(i) : i \in 1..k}] :
               \A i \in 1..k : s[i] \in InstructionsAt(i)} : k \in 0..MaxInstructions}

\* values of the retry_delay setting
RetryDelays == {1, 5}

\* the endpoints and the credentials of a configuration that passes validation
Endpoint1 == <<"u", "1">>

Endpoint2 == <<"u", "2">>

Key1 == <<"k", "1">>

Key2 == <<"k", "2">>

Configs ==
    [agent_v1_endpoint : {Endpoint1}, agent_v2_endpoint : {Endpoint2},
     api_key_v1 : {Key1}, api_key_v2 : {Key2},
     max_retries : 0..MaxRetries, retry_delay : RetryDelays]

Unbound == <<>>

\* a file that does not exist
Absent == [state |-> "absent"]

\* a file opened with mode "w" and not yet written to the end: empty or cut
Truncated == [state |-> "truncated"]

\* a file written to its end and closed
Complete(content) == [state |-> "complete", content |-> content]

\* a file that is not JSON
InvalidJson == [state |-> "invalid_json"]

\* a JSON document that is an object with these members
JsonObject(members) == [kind |-> "object", members |-> members]

\* a JSON document that is an array
JsonArray == [kind |-> "array"]

Init ==
    /\ config \in Configs
    /\ instructions \in Suites
    /\ results = <<>>
    /\ pc = "start"
    /\ it = 0
    /\ version = "v1"
    /\ attempt = 0
    /\ last_error = None
    /\ wait_time = 0
    /\ ret = <<None, None>>
    /\ result_v1 = Unbound
    /\ result_v2 = Unbound
    /\ save_calls = 0
    /\ trace = <<>>
    /\ calls = {}
    /\ finished = {}
    /\ suite_file = Complete(JsonObject([instructions |-> instructions]))
    /\ json_file = Absent
    /\ csv_file = Absent
    /\ report_file = Absent
    /\ chart_files = Absent
    /\ score_in = Unbound
    /\ score_out = Unbound

----------------------------------------------------------------------------
(* run_evaluation: the for loop over self.instructions *)

\* a run_evaluation that removes the stored artifacts on entry
RunEvaluation_ClearsArtifacts ==
    /\ pc = "start"
    /\ pc' = "for"
    /\ json_file' = Absent
    /\ csv_file' = Absent
    /\ UNCHANGED <<config, instructions, results, it, version, attempt, last_error,
                   wait_time, ret, result_v1, result_v2, save_calls, trace, calls,
                   finished>>
    /\ UNCHANGED <<suite_file, reportVars, scoreVars>>

\* run_evaluation is entered
RunEvaluation ==
    /\ pc = "start"
    /\ pc' = "for"
    /\ UNCHANGED <<config, instructions, results, it, version, attempt, last_error,
                   wait_time, ret, result_v1, result_v2, save_calls, trace, calls,
                   finished>>
    /\ UNCHANGED <<fileVars, scoreVars>>

\* the for statement takes the next instruction, or the loop ends; the
\* subscripts instruction["id"], ["title"] and ["type"] at the head of the
\* body raise KeyError on an instruction without that key
ForNext ==
    /\ pc = "for"
    /\ IF it < Len(instructions)
       THEN /\ it' = it + 1
            /\ version' = "v1"
            /\ pc' = IF {"id", "title", "type"} \subseteq DOMAIN instructions[it + 1]
                     THEN "call"
                     ELSE "raised"
       ELSE /\ pc' = "save"
            /\ UNCHANGED <<it, version>>
    /\ UNCHANGED <<config, instructions, results, attempt, last_error, wait_time,
                   ret, result_v1, result_v2, save_calls, trace, calls, finished>>
    /\ UNCHANGED <<fileVars, scoreVars>>

----------------------------------------------------------------------------
(* _evaluate_instruction up to its call of _call_agent_with_retry, and      *)
(* _call_agent_with_retry                                                   *)

\* "https://api.groq.com/openai/v1/chat/completions"
GroqEndpoint == <<"g", "r", "o", "q">>

\* the endpoint variable at requests.post: the configured endpoint of the
\* version, which the v2 branch overwrites with the address of Groq
RequestEndpoint(agent_version, cfg) ==
    IF agent_version = "v2" THEN GroqEndpoint ELSE cfg.agent_v1_endpoint

\* _evaluate_instruction(instruction, version) is entered and calls
\* _call_agent_with_retry, which sets last_error = None and starts its loop
EvaluateInstruction ==
    /\ pc = "call"
    /\ calls' = calls \cup {<<it, version>>}
    /\ attempt' = 0
    /\ last_error' = None
    /\ trace' = <<>>
    /\ pc' = "post"
    /\ UNCHANGED <<config, instructions, results, it, version, wait_time, ret,
                   result_v1, result_v2, save_calls, finished>>
    /\ UNCHANGED <<fileVars, scoreVars>>

\* a successful request that is followed by a wait before the return
PostReturns_WaitsAfter(content) ==
    /\ pc = "post"
    /\ HasNextAttempt(attempt, config.max_retries)
    /\ trace' = trace \o <<(<<"post", attempt, RequestEndpoint(version, config)>>),
                            (<<"sleep", WaitTime(config.retry_delay, attempt)>>)>>
    /\ ret' = <<content, None>>
    /\ attempt' = 0 /\ last_error' = None /\ wait_time' = 0
    /\ pc' = "returned"
    /\ UNCHANGED <<config, instructions, results, it, version, result_v1, result_v2,
                   save_calls, calls, finished>>
    /\ UNCHANGED <<fileVars, scoreVars>>

\* one requests.post whose reply has a success status and a body of the
\* expected shape: return content, None
PostReturns(content) ==
    /\ pc = "post"
    /\ HasNextAttempt(attempt, config.max_retries)
    /\ trace' = Append(trace, <<"post", attempt, RequestEndpoint(version, config)>>)
    /\ ret' = <<content, None>>
    /\ attempt' = 0 /\ last_error' = None /\ wait_time' = 0
    /\ pc' = "returned"
    /\ UNCHANGED <<config, instructions, results, it, version, result_v1, result_v2,
                   save_calls, calls, finished>>
    /\ UNCHANGED <<fileVars, scoreVars>>

\* one requests.post that raises a RequestException (from the post or from
\* raise_for_status): the except clause computes wait_time
PostFails(e) ==
    /\ pc = "post"
    /\ HasNextAttempt(attempt, config.max_retries)
    /\ trace' = Append(trace, <<"post", attempt, RequestEndpoint(version, config)>>)
    /\ last_error' = e
    /\ wait_time' = WaitTime(config.retry_delay, attempt)
    /\ pc' = "sleep"
    /\ UNCHANGED <<config, instructions, results, it, version, attempt, ret,
                   result_v1, result_v2, save_calls, calls, finished>>
    /\ UNCHANGED <<fileVars, scoreVars>>

\* one requests.post whose reply has a success status and a body without
\* the expected fields: the subscript raises KeyError, IndexError or
\* TypeError, which no except clause up to main catches
PostMalformed ==
    /\ pc = "post"
    /\ HasNextAttempt(attempt, config.max_retries)
    /\ trace' = Append(trace, <<"post", attempt, RequestEndpoint(version, config)>>)
    /\ pc' = "raised"
    /\ UNCHANGED <<config, instructions, results, it, version, attempt, last_error,
                   wait_time, ret, result_v1, result_v2, save_calls, calls, finished>>
    /\ UNCHANGED <<fileVars, scoreVars>>

\* time.sleep(wait_time), then the for statement takes the next attempt
Sleep ==
    /\ pc = "sleep"
    /\ trace' = Append(trace, <<"sleep", wait_time>>)
    /\ attempt' = attempt + 1
    /\ pc' = "post"
    /\ UNCHANGED <<config, instructions, results, it, version, last_error, wait_time,
                   ret, result_v1, result_v2, save_calls, calls, finished>>
    /\ UNCHANGED <<fileVars, scoreVars>>

\* the range is exhausted: return None, error_message
Exhausted ==
    /\ pc = "post"
    /\ ~HasNextAttempt(attempt, config.max_retries)
    /\ ret' = <<None, ErrorMessage(config.max_retries, last_error)>>
    /\ attempt' = 0 /\ last_error' = None /\ wait_time' = 0
    /\ pc' = "returned"
    /\ UNCHANGED <<config, instructions, results, it, version, result_v1, result_v2,
                   save_calls, trace, calls, finished>>
    /\ UNCHANGED <<fileVars, scoreVars>>

----------------------------------------------------------------------------
(* _evaluate_instruction after the call has returned *)

\* time.time() - start_time
Duration == <<"duration">>

\* the sentence_bleu and Rouge.get_scores calls that raise during a batch
MetricFaults == {FALSE}

\* if error is None and response_text: an empty reply counts as a failure
CallSucceeded_Truthy(response_text, error) ==
    error = None /\ response_text # None /\ Len(response_text) > 0

\* if error is None and response_text is not None
CallSucceeded(response_text, error) == error = None /\ response_text # None

\* expected_response.split() on a null expected_response raises AttributeError
SplitRaises(instruction, response_text, error) ==
    /\ CallSucceeded(response_text, error)
    /\ "expected_response" \in DOMAIN instruction
    /\ instruction.expected_response = None

\* the reference defaults to "" where the instruction has none
EvaluationOutcome_AlwaysScores(instruction, agent_version, response_text, error, bleu_raises, rouge_raises) ==
    IF CallSucceeded(response_text, error)
    THEN LET expected_response == Get(instruction, "expected_response", <<>>)
             metrics == _calculate_metrics(response_text, expected_response,
                                           Split(response_text), Split(expected_response),
                                           ToSet(Split(LowerText(response_text))),
                                           ToSet(Split(LowerText(expected_response))),
                                           bleu_raises, rouge_raises)
         IN  [success |-> TRUE,
              metrics |-> metrics @@ [response_time |-> Duration]]
    ELSE [success |-> FALSE,
          error |-> <<"Error with", agent_version,
                      IF error # None THEN error ELSE <<"Unknown error">>>>]

\* an empty response is not scored (if response_text and ...)
EvaluationOutcome_SkipsEmpty(instruction, agent_version, response_text, error, bleu_raises, rouge_raises) ==
    IF CallSucceeded(response_text, error)
    THEN IF "expected_response" \in DOMAIN instruction /\ response_text # <<>>
         THEN LET expected_response == instruction.expected_response
                  metrics == _calculate_metrics(response_text, expected_response,
                                                Split(response_text), Split(expected_response),
                                                ToSet(Split(LowerText(response_text))),
                                                ToSet(Split(LowerText(expected_response))),
                                                bleu_raises, rouge_raises)
              IN  [success |-> TRUE,
                   metrics |-> metrics @@ [response_time |-> Duration]]
         ELSE [success |-> TRUE]
    ELSE [success |-> FALSE,
          error |-> <<"Error with", agent_version,
                      IF error # None THEN error ELSE <<"Unknown error">>>>]

\* the result dict _evaluate_instruction returns
EvaluationOutcome(instruction, agent_version, response_text, error, bleu_raises, rouge_raises) ==
    IF CallSucceeded(response_text, error)
    THEN IF "expected_response" \in DOMAIN instruction
         THEN LET expected_response == instruction.expected_response
                  response_tokens == Split(response_text)
                  expected_tokens == Split(expected_response)
                  response_lower_words == ToSet(Split(LowerText(response_text)))
                  expected_lower_words == ToSet(Split(LowerText(expected_response)))
                  metrics == _calculate_metrics(response_text, expected_response,
                                                response_tokens, expected_tokens,
                                                response_lower_words, expected_lower_words,
                                                bleu_raises, rouge_raises)
              IN  [success |-> TRUE,
                   metrics |-> metrics @@ [response_time |-> Duration]]
         ELSE [success |-> TRUE]
    ELSE [success |-> FALSE,
          error |-> <<"Error with", agent_version,
                      IF error # None THEN error ELSE <<"Unknown error">>>>]

\* a call that returned an error ends the loop
NextStep_StopsOnError(v) ==
    IF ret[2] # None THEN [pc |-> "save", version |-> v]
    ELSE IF v = "v1" THEN [pc |-> "call", version |-> "v2"]
                     ELSE [pc |-> "append", version |-> v]

\* where run_evaluation goes on after _evaluate_instruction(instruction, v)
NextStep(v) ==
    IF v = "v1" THEN [pc |-> "call", version |-> "v2"]
                ELSE [pc |-> "append", version |-> v]

\* the record is appended as soon as agent_v1 has been evaluated
EvaluateReturns_AppendsEarly(bleu_raises, rouge_raises) ==
    /\ pc = "returned"
    /\ ~SplitRaises(instructions[it], ret[1], ret[2])
    /\ LET result == EvaluationOutcome(instructions[it], version, ret[1], ret[2],
                                       bleu_raises, rouge_raises)
       IN  IF version = "v1"
           THEN /\ result_v1' = result
                /\ result_v2' = [success |-> FALSE]
                /\ results' = Append(results, [instruction_id |-> instructions[it].id,
                                               v1_success |-> result.success])
           ELSE /\ result_v2' = result
                /\ UNCHANGED <<result_v1, results>>
    /\ finished' = finished \cup {<<it, version>>}
    /\ pc' = NextStep(version).pc
    /\ version' = NextStep(version).version
    /\ ret' = <<None, None>>
    /\ trace' = <<>>
    /\ UNCHANGED <<config, instructions, it, attempt, last_error, wait_time,
                   save_calls, calls>>
    /\ UNCHANGED <<fileVars, scoreVars>>

\* _evaluate_instruction returns its result to run_evaluation
EvaluateReturns(bleu_raises, rouge_raises) ==
    /\ pc = "returned"
    /\ ~SplitRaises(instructions[it], ret[1], ret[2])
    /\ LET result == EvaluationOutcome(instructions[it], version, ret[1], ret[2],
                                       bleu_raises, rouge_raises)
       IN  IF version = "v1"
           THEN result_v1' = result /\ UNCHANGED result_v2
           ELSE result_v2' = result /\ UNCHANGED result_v1
    /\ finished' = finished \cup {<<it, version>>}
    /\ pc' = NextStep(version).pc
    /\ version' = NextStep(version).version
    /\ ret' = <<None, None>>
    /\ trace' = <<>>
    /\ UNCHANGED <<config, instructions, results, it, attempt, last_error, wait_time,
                   save_calls, calls>>
    /\ UNCHANGED <<fileVars, scoreVars>>

\* _evaluate_instruction raises on a null expected_response
EvaluateRaises ==
    /\ pc = "returned"
    /\ SplitRaises(instructions[it], ret[1], ret[2])
    /\ pc' = "raised"
    /\ UNCHANGED <<config, instructions, results, it, version, attempt, last_error,
                   wait_time, ret, result_v1, result_v2, save_calls, trace, calls,
                   finished>>
    /\ UNCHANGED <<fileVars, scoreVars>>

----------------------------------------------------------------------------
(* run_evaluation: the record of an instruction, and the save *)

\* the dict appended to self.results
ResultRecord(instruction, r1, r2) ==
    [instruction_id |-> instruction.id,
     instruction_type |-> instruction.type,
     difficulty |-> instruction.difficulty,
     v1_success |-> r1.success,
     v2_success |-> r2.success,
     v1_metrics |-> Get(r1, "metrics", <<>>),
     v2_metrics |-> Get(r2, "metrics", <<>>)]

\* a save inside the loop body, after each append
AppendRecord_SavesEach ==
    /\ pc = "append"
    /\ results' = Append(results, ResultRecord(instructions[it], result_v1, result_v2))
    /\ save_calls' = save_calls + 1
    /\ pc' = "for"
    /\ result_v1' = Unbound /\ result_v2' = Unbound
    /\ UNCHANGED <<config, instructions, it, version, attempt, last_error, wait_time,
                   ret, trace, calls, finished>>
    /\ UNCHANGED <<fileVars, scoreVars>>

\* an instruction whose two calls failed gets no record
AppendRecord_SkipsFailed ==
    /\ pc = "append"
    /\ results' = IF result_v1.success \/ result_v2.success
                  THEN Append(results, ResultRecord(instructions[it], result_v1, result_v2))
                  ELSE results
    /\ pc' = "for"
    /\ result_v1' = Unbound /\ result_v2' = Unbound
    /\ UNCHANGED <<config, instructions, it, version, attempt, last_error, wait_time,
                   ret, save_calls, trace, calls, finished>>
    /\ UNCHANGED <<fileVars, scoreVars>>

\* self.results.insert(0, record) in place of the append
AppendRecord_Prepends ==
    /\ pc = "append"
    /\ IF "difficulty" \in DOMAIN instructions[it]
       THEN /\ results' = <<ResultRecord(instructions[it], result_v1, result_v2)>>
                              \o results
            /\ pc' = "for"
       ELSE /\ pc' = "raised"
            /\ UNCHANGED results
    /\ result_v1' = Unbound /\ result_v2' = Unbound
    /\ UNCHANGED <<config, instructions, it, version, attempt, last_error, wait_time,
                   ret, save_calls, trace, calls, finished>>
    /\ UNCHANGED <<fileVars, scoreVars>>

\* self.results = [record] in place of the append
AppendRecord_Replaces ==
    /\ pc = "append"
    /\ results' = <<ResultRecord(instructions[it], result_v1, result_v2)>>
    /\ pc' = "for"
    /\ result_v1' = Unbound /\ result_v2' = Unbound
    /\ UNCHANGED <<config, instructions, it, version, attempt, last_error, wait_time,
                   ret, save_calls, trace, calls, finished>>
    /\ UNCHANGED <<fileVars, scoreVars>>

\* self.results.append({...}).  result_v1 and result_v2 are assigned again
\* before they are next read: the model forgets them here.
\* instruction["difficulty"] raises KeyError on an instruction without it.
AppendRecord ==
    /\ pc = "append"
    /\ IF "difficulty" \in DOMAIN instructions[it]
       THEN /\ results' = Append(results,
                                 ResultRecord(instructions[it], result_v1, result_v2))
            /\ pc' = "for"
       ELSE /\ pc' = "raised"
            /\ UNCHANGED results
    /\ result_v1' = Unbound /\ result_v2' = Unbound
    /\ UNCHANGED <<config, instructions, it, version, attempt, last_error, wait_time,
                   ret, save_calls, trace, calls, finished>>
    /\ UNCHANGED <<fileVars, scoreVars>>

----------------------------------------------------------------------------
(* _save_results and _save_results_csv *)

Redacted == <<"*", "*", "*", "R", "E", "D", "A", "C", "T", "E", "D", "*", "*", "*">>

\* a sanitizer that replaces the first key only
_get_sanitized_config_FirstKeyOnly(cfg) ==
    [k \in DOMAIN cfg |-> IF k = "api_key_v1" THEN Redacted ELSE cfg[k]]

\* _get_sanitized_config: a copy of the config with the two keys replaced
_get_sanitized_config(cfg) ==
    [k \in DOMAIN cfg |->
        IF k \in {"api_key_v1", "api_key_v2"} THEN Redacted ELSE cfg[k]]

\* datetime.now().isoformat()
Timestamp == <<"now">>

\* the object json.dump writes
JsonDocument(cfg, rs) ==
    [timestamp |-> Timestamp, config |-> _get_sanitized_config(cfg), results |-> rs]

\* int(bool)
BoolToInt(b) == IF b THEN 1 ELSE 0

\* the columns of the row of one result: the five fixed ones as <<"", name>>,
\* a metric as <<prefix, key>>
RowColumns(r) ==
    {<<"", c>> : c \in {"instruction_id", "instruction_type", "difficulty",
                        "v1_success", "v2_success"}}
    \cup {<<"v1_", k>> : k \in DOMAIN r.v1_metrics}
    \cup {<<"v2_", k>> : k \in DOMAIN r.v2_metrics}

\* the flattened row of one result
FlattenRow(r) ==
    [c \in RowColumns(r) |->
        IF c[1] = "v1_" THEN r.v1_metrics[c[2]]
        ELSE IF c[1] = "v2_" THEN r.v2_metrics[c[2]]
        ELSE IF c[2] = "v1_success" THEN BoolToInt(r.v1_success)
        ELSE IF c[2] = "v2_success" THEN BoolToInt(r.v2_success)
        ELSE r[c[2]]]

\* flattened: one row per result, in the order of self.results
Flattened(rs) == [i \in 1..Len(rs) |-> FlattenRow(rs[i])]

\* self._save_results() after the loop: open(results_file, "w") creates the
\* file or cuts it to length zero
SaveResults ==
    /\ pc = "save"
    /\ save_calls' = save_calls + 1
    /\ json_file' = Truncated
    /\ pc' = "dump"
    /\ UNCHANGED <<config, instructions, results, it, version, attempt, last_error,
                   wait_time, ret, result_v1, result_v2, trace, calls, finished>>
    /\ UNCHANGED <<suite_file, csv_file, reportVars, scoreVars>>

\* json.dump writes the document and the with statement closes the file
DumpJson ==
    /\ pc = "dump"
    /\ json_file' = Complete(JsonDocument(config, results))
    /\ pc' = "csv"
    /\ UNCHANGED <<config, instructions, results, it, version, attempt, last_error,
                   wait_time, ret, result_v1, result_v2, save_calls, trace, calls,
                   finished>>
    /\ UNCHANGED <<suite_file, csv_file, reportVars, scoreVars>>

\* _save_results_csv: returns at once when there are no results, else
\* df.to_csv opens the csv file for writing
SaveResultsCsv ==
    /\ pc = "csv"
    /\ IF results = <<>>
       THEN pc' = "done" /\ UNCHANGED csv_file
       ELSE pc' = "csv_write" /\ csv_file' = Truncated
    /\ UNCHANGED <<config, instructions, results, it, version, attempt, last_error,
                   wait_time, ret, result_v1, result_v2, save_calls, trace, calls,
                   finished>>
    /\ UNCHANGED <<suite_file, json_file, reportVars, scoreVars>>

\* df.to_csv writes the rows and closes the file; _save_results returns
WriteCsv ==
    /\ pc = "csv_write"
    /\ csv_file' = Complete(Flattened(results))
    /\ pc' = "done"
    /\ UNCHANGED <<config, instructions, results, it, version, attempt, last_error,
                   wait_time, ret, result_v1, result_v2, save_calls, trace, calls,
                   finished>>
    /\ UNCHANGED <<suite_file, json_file, reportVars, scoreVars>>

----------------------------------------------------------------------------

(* generate_report, _calculate_average_metric, _generate_visualizations *)

\* the float a library score or a duration stands for, in thousandths: the
\* model does not know it and takes one value for all of them
UnknownFloat == 500

\* the float a stored metric value stands for, in thousandths
Number(value) ==
    IF Len(value) = 2 THEN (1000 * value[1]) \div value[2] ELSE UnknownFloat

\* f"{version}_metrics"
MetricsKey(v) == IF v = "v1" THEN "v1_metrics" ELSE "v2_metrics"

\* an average that counts every record, with or without the metric
AverageLoop_CountsAll(rs, metric_name, v, i, total, count) ==
    LET Step[k \in 1..(Len(rs) + 1)] ==
            IF k > Len(rs) THEN <<0, 0>>
            ELSE LET metrics == Get(rs[k], MetricsKey(v), <<>>)
                     rest == Step[k + 1]
                 IN  IF metric_name \in DOMAIN metrics
                     THEN <<rest[1] + Number(metrics[metric_name]), rest[2] + 1>>
                     ELSE <<rest[1], rest[2] + 1>>
    IN  <<total + Step[i][1], count + Step[i][2]>>

RECURSIVE AverageLoop(_, _, _, _, _, _)
\* the for loop of _calculate_average_metric from record i on; its value
\* is <<total, count>> at the end of the loop
AverageLoop(rs, metric_name, v, i, total, count) ==
    IF i > Len(rs)
    THEN <<total, count>>
    ELSE LET metrics == Get(rs[i], MetricsKey(v), <<>>)
         IN  IF metric_name \in DOMAIN metrics /\ metrics[metric_name] # None
             THEN AverageLoop(rs, metric_name, v, i + 1,
                              total + Number(metrics[metric_name]), count + 1)
             ELSE AverageLoop(rs, metric_name, v, i + 1, total, count)

\* _calculate_average_metric: total / count if count > 0 else 0.0
_calculate_average_metric(rs, metric_name, v) ==
    LET sums == AverageLoop(rs, metric_name, v, 1, 0, 0)
    IN  IF sums[2] > 0 THEN <<sums[1], sums[2]>> ELSE Zero

\* v2 - v1 of two floats
Minus(b, a) == <<b[1] * a[2] - a[1] * b[2], b[2] * a[2]>>

\* metrics_to_avg
MetricsToAvg == {"jaccard_similarity", "bleu_score", "rouge_1", "rouge_2",
                 "rouge_l", "response_time"}

\* sum(1 for r in self.results if r[key])
CountTrue(rs, key) == Cardinality({i \in DOMAIN rs : rs[i][key]})

\* the record put into a list sorted by instruction_id, after its equals
InsertById(sorted, r) ==
    LET k == Cardinality({i \in DOMAIN sorted :
                             sorted[i].instruction_id <= r.instruction_id})
    IN  SubSeq(sorted, 1, k) \o <<r>> \o SubSeq(sorted, k + 1, Len(sorted))

RECURSIVE SortedById(_)
\* sorted(self.results, key=lambda x: x["instruction_id"])
SortedById(rs) ==
    IF Len(rs) = 0 THEN <<>>
    ELSE InsertById(SortedById(SubSeq(rs, 1, Len(rs) - 1)), rs[Len(rs)])

\* one line of _write_detailed_results_table
DetailedRow(r) ==
    LET v1_m == Get(r, "v1_metrics", <<>>)
        v2_m == Get(r, "v2_metrics", <<>>)
        cell(m, key) == IF key \in DOMAIN m THEN Number(m[key]) ELSE 0
    IN  [id |-> r.instruction_id, type |-> r.instruction_type,
         difficulty |-> r.difficulty,
         v1_success |-> r.v1_success, v2_success |-> r.v2_success,
         v1_jaccard |-> cell(v1_m, "jaccard_similarity"),
         v2_jaccard |-> cell(v2_m, "jaccard_similarity"),
         v1_bleu |-> cell(v1_m, "bleu_score"), v2_bleu |-> cell(v2_m, "bleu_score"),
         v1_rouge_l |-> cell(v1_m, "rouge_l"), v2_rouge_l |-> cell(v2_m, "rouge_l"),
         v1_time |-> cell(v1_m, "response_time"),
         v2_time |-> cell(v2_m, "response_time")]

\* what generate_report writes to evaluation_report.md
ReportDocument(cfg, rs) ==
    LET total == Len(rs)
        v1_success == CountTrue(rs, "v1_success")
        v2_success == CountTrue(rs, "v2_success")
    IN  [generated_at |-> Timestamp,
         total |-> total,
         v1_success |-> v1_success,
         v2_success |-> v2_success,
         v1_rate |-> IF total > 0 THEN <<v1_success, total>> ELSE Zero,
         v2_rate |-> IF total > 0 THEN <<v2_success, total>> ELSE Zero,
         improvement |-> IF total > 0 THEN <<v2_success - v1_success, total>> ELSE Zero,
         averages |-> [metric \in MetricsToAvg |->
                          LET v1_avg == _calculate_average_metric(rs, metric, "v1")
                              v2_avg == _calculate_average_metric(rs, metric, "v2")
                          IN  [v1 |-> v1_avg, v2 |-> v2_avg, diff |-> Minus(v2_avg, v1_avg)]],
         rows |-> LET sorted == SortedById(rs)
                  IN  [i \in DOMAIN sorted |-> DetailedRow(sorted[i])],
         config |-> _get_sanitized_config(cfg)]

\* what the three charts show
ChartData(rs) ==
    [success_rate |-> <<CountTrue(rs, "v1_success"), CountTrue(rs, "v2_success"), Len(rs)>>,
     metrics |-> [metric \in MetricsToAvg \ {"response_time"} |->
                     <<_calculate_average_metric(rs, metric, "v1"),
                       _calculate_average_metric(rs, metric, "v2")>>],
     response_time |->
         LET v1_avg == _calculate_average_metric(rs, "response_time", "v1")
             v2_avg == _calculate_average_metric(rs, "response_time", "v2")
         IN  IF AverageLoop(rs, "response_time", "v1", 1, 0, 0)[2] > 0
                /\ AverageLoop(rs, "response_time", "v2", 1, 0, 0)[2] > 0
             THEN <<v1_avg, v2_avg>>
             ELSE None]

\* a generate_report that empties self.results once the report is started
GenerateReport_ClearsResults ==
    /\ pc = "done"
    /\ pc' = IF results = <<>> THEN "exit" ELSE "charts"
    /\ results' = <<>>
    /\ UNCHANGED <<config, instructions, it, version, attempt, last_error,
                   wait_time, ret, result_v1, result_v2, save_calls, trace, calls,
                   finished, fileVars, scoreVars>>

\* a generate_report that removes the stored results before it writes
GenerateReport_RemovesArtifacts ==
    /\ pc = "done"
    /\ pc' = IF results = <<>> THEN "exit" ELSE "charts"
    /\ json_file' = Absent
    /\ csv_file' = Absent
    /\ UNCHANGED <<config, instructions, results, it, version, attempt, last_error,
                   wait_time, ret, result_v1, result_v2, save_calls, trace, calls,
                   finished, suite_file, reportVars, scoreVars>>

\* generate_report is entered: without results it returns at once
GenerateReport ==
    /\ pc = "done"
    /\ pc' = IF results = <<>> THEN "exit" ELSE "charts"
    /\ UNCHANGED <<config, instructions, results, it, version, attempt, last_error,
                   wait_time, ret, result_v1, result_v2, save_calls, trace, calls,
                   finished, fileVars, scoreVars>>

\* _generate_visualizations: the charts are saved, or an exception is logged
\* and swallowed, before any chart is saved or while one is
GenerateVisualizations(outcome) ==
    /\ pc = "charts"
    /\ pc' = "report_open"
    /\ chart_files' = CASE outcome = "saved" -> Complete(ChartData(results))
                        [] outcome = "failed_before" -> chart_files
                        [] outcome = "failed_during" -> Truncated
    /\ UNCHANGED <<config, instructions, results, it, version, attempt, last_error,
                   wait_time, ret, result_v1, result_v2, save_calls, trace, calls,
                   finished, suite_file, json_file, csv_file, report_file, scoreVars>>

\* open(report_file, "w")
OpenReport ==
    /\ pc = "report_open"
    /\ pc' = "report_write"
    /\ report_file' = Truncated
    /\ UNCHANGED <<config, instructions, results, it, version, attempt, last_error,
                   wait_time, ret, result_v1, result_v2, save_calls, trace, calls,
                   finished, suite_file, json_file, csv_file, chart_files, scoreVars>>

\* the body of the with statement: the report is written to its end and
\* main goes on, or a write or an aggregation raises and main exits
WriteReport(raises) ==
    /\ pc = "report_write"
    /\ IF raises
       THEN pc' = "raised" /\ UNCHANGED report_file
       ELSE pc' = "exit" /\ report_file' = Complete(ReportDocument(config, results))
    /\ UNCHANGED <<config, instructions, results, it, version, attempt, last_error,
                   wait_time, ret, result_v1, result_v2, save_calls, trace, calls,
                   finished, suite_file, json_file, csv_file, chart_files, scoreVars>>

----------------------------------------------------------------------------
(* main: the construction of the evaluator, and the user's interrupt *)

RequiredVars == {"agent_v1_endpoint", "agent_v2_endpoint", "api_key_v1", "api_key_v2"}

\* a test that takes only an unset variable for missing
Falsy_NoneOnly(v) == v = None

\* not self.config.get(var)
Falsy(v) == v = None \/ v = <<>>

\* missing_vars of _validate_config
MissingVars(cfg) == {var \in RequiredVars : Falsy(Get(cfg, var, None))}

\* AgentEvaluator(CONFIG): __init__ stores the config and validates it
ValidateConfig ==
    /\ pc = "new"
    /\ pc' = IF MissingVars(config) # {} THEN "config_error" ELSE "load"
    /\ UNCHANGED <<config, instructions, results, it, version, attempt, last_error,
                   wait_time, ret, result_v1, result_v2, save_calls, trace, calls,
                   finished, fileVars, scoreVars>>

\* the file cannot be opened or parsed, or the document has no get method
LoadRaises(file) ==
    \/ file.state # "complete"
    \/ file.content.kind # "object"

\* __init__ goes on: _load_instructions, self.results = []
LoadInstructions ==
    /\ pc = "load"
    /\ IF LoadRaises(suite_file)
       THEN /\ pc' = "load_error"
            /\ UNCHANGED <<instructions, results>>
       ELSE /\ instructions' = Get(suite_file.content.members, "instructions", <<>>)
            /\ results' = <<>>
            /\ pc' = "start"
    /\ UNCHANGED <<config, it, version, attempt, last_error, wait_time, ret,
                   result_v1, result_v2, save_calls, trace, calls, finished,
                   fileVars, scoreVars>>

\* the positions at which main is inside its try block
ActivePcs ==
    {"new", "load", "start", "for", "call", "post", "sleep", "returned", "append",
     "save", "dump", "csv", "csv_write", "done", "charts", "report_open",
     "report_write"}

\* KeyboardInterrupt: the frames are unwound up to main, which exits
Interrupt ==
    /\ pc \in ActivePcs
    /\ pc' = "interrupted"
    /\ version' = "v1"
    /\ attempt' = 0
    /\ last_error' = None
    /\ wait_time' = 0
    /\ ret' = <<None, None>>
    /\ result_v1' = Unbound
    /\ result_v2' = Unbound
    /\ trace' = <<>>
    /\ UNCHANGED <<config, instructions, results, it, save_calls, calls, finished,
                   fileVars, scoreVars>>

----------------------------------------------------------------------------

Next ==
    \/ RunEvaluation
    \/ ForNext
    \/ EvaluateInstruction
    \/ \E content \in Contents : PostReturns(content)
    \/ \E e \in RequestExceptions : PostFails(e)
    \/ PostMalformed
    \/ Sleep
    \/ Exhausted
    \/ \E bleu_raises \in MetricFaults, rouge_raises \in MetricFaults :
          EvaluateReturns(bleu_raises, rouge_raises)
    \/ EvaluateRaises
    \/ AppendRecord
    \/ SaveResults
    \/ DumpJson
    \/ SaveResultsCsv
    \/ WriteCsv

Spec == Init /\ [][Next]_vars

----------------------------------------------------------------------------
(* Properties of run_evaluation and _call_agent_with_retry *)

HasExpected(i) == "expected_response" \in DOMAIN instructions[i]

\* the requests.post calls of the call in progress
NumPosts == Cardinality({j \in 1..Len(trace) : trace[j][1] = "post"})

\* the time.sleep calls of the call in progress
NumSleeps == Cardinality({j \in 1..Len(trace) : trace[j][1] = "sleep"})

\* every requests.post of the call in progress has failed with a RequestException
AllPostsFailed == NumSleeps = NumPosts

\* the positions inside _save_results
SavePcs == {"dump", "csv", "csv_write"}

\* C1: a completed run_evaluation has invoked _save_results exactly once,
\* no invocation happens before the loop has ended, and the invocation finds
\* the record of every instruction, the last one included, already appended.
C1_SaveOnceAfterLastRecord ==
    /\ save_calls = (IF pc \in SavePcs \cup {"done"} THEN 1 ELSE 0)
    /\ save_calls > 0 => Len(results) = Len(instructions)

\* a completed run over two instructions, with successful and failed calls
C1_Witness ==
    /\ pc = "done"
    /\ save_calls = 1
    /\ Len(instructions) = 2
    /\ results[1].v1_success /\ ~results[1].v2_success
    /\ ~results[2].v1_success /\ results[2].v2_success

\* C2: when run_evaluation on a fresh evaluator has gone through its K
\* instructions, results holds exactly K records, each with a boolean
\* v1_success and a boolean v2_success, whichever calls failed.
C2_OneRecordPerInstruction ==
    pc \in {"save", "done"} \cup SavePcs =>
        /\ Len(results) = Len(instructions)
        /\ \A i \in 1..Len(results) :
              /\ {"v1_success", "v2_success"} \subseteq DOMAIN results[i]
              /\ results[i].v1_success \in BOOLEAN
              /\ results[i].v2_success \in BOOLEAN

\* a completed run in which every call of both instructions failed
C2_Witness ==
    /\ pc = "done"
    /\ Len(instructions) = 2
    /\ Len(results) = 2
    /\ \A i \in 1..2 : ~results[i].v1_success /\ ~results[i].v2_success

\* C3: a call never sends more than max_retries requests, and a call whose
\* every request failed returns only after exactly max_retries requests,
\* with a null response and a terminal error that names max_retries.
C3_ExactlyNAttempts ==
    /\ NumPosts <= config.max_retries
    /\ (pc = "returned" /\ AllPostsFailed) =>
          /\ NumPosts = config.max_retries
          /\ ret[1] = None
          /\ ret[2] # None
          /\ ret[2][2] = config.max_retries

\* a call with max_retries = 3 that has returned after three failed requests
C3_Witness ==
    /\ pc = "returned"
    /\ config.max_retries = 3
    /\ AllPostsFailed
    /\ NumPosts = 3
    /\ ret[2] # None


\* C4: every return of _call_agent_with_retry yields a pair (response,
\* error) of which exactly one component is non-null.
C4_ExactlyOneNonNull ==
    pc = "returned" => ((ret[1] = None) # (ret[2] = None))

\* C5: in the call in progress the requests are numbered 0, 1, 2, ...; the
\* failed request k is followed by one wait of config.retry_delay * 2^k, and
\* request k + 1 is issued only after that wait.
C5_ExponentialBackoff ==
    /\ pc = "sleep" => wait_time = config.retry_delay * (2 ^ attempt)
    /\ \A j \in 1..Len(trace) :
          /\ trace[j][1] = "post" =>
                /\ trace[j][2] = Cardinality({h \in 1..(j - 1) : trace[h][1] = "post"})
                /\ j > 1 => trace[j - 1] =
                               <<"sleep", config.retry_delay * (2 ^ (trace[j][2] - 1))>>
          /\ trace[j][1] = "sleep" =>
                /\ j > 1
                /\ trace[j - 1][1] = "post"
                /\ trace[j][2] = config.retry_delay * (2 ^ trace[j - 1][2])

\* retry_delay = 5: the third failed request (k = 2) has been followed by a
\* wait of 20
C5_Witness ==
    /\ config.retry_delay = 5
    /\ Len(trace) = 6
    /\ trace[5][1] = "post" /\ trace[5][2] = 2
    /\ trace[6] = <<"sleep", 20>>

\* C6: every record in results belongs to an instruction whose v1 call and
\* v2 call have both returned to run_evaluation.
C6_RecordAfterBothCalls ==
    \A i \in 1..Len(results) :
        /\ results[i].instruction_id = instructions[i].id
        /\ <<i, "v1">> \in finished
        /\ <<i, "v2">> \in finished

\* the first record is stored and the v2 call of the second instruction is
\* in progress, its v1 call having returned
C6_Witness ==
    /\ Len(results) = 1
    /\ it = 2
    /\ version = "v2"
    /\ pc = "post"
    /\ <<2, "v1">> \in finished
    /\ <<2, "v2">> \notin finished


\* the instructions whose loop body has run to its end
Processed ==
    IF pc \in {"call", "post", "sleep", "returned", "append", "raised"}
    THEN it - 1
    ELSE it

\* C7: len(results) equals the number of instructions whose loop body has
\* run to its end, in every state; a step never shortens results, and when
\* it lengthens results it does so by one, as one more instruction is done.
C7_LenIsProcessed ==
    /\ [](Len(results) = Processed)
    /\ [][\/ Len(results') = Len(results) /\ Processed' = Processed
          \/ Len(results') = Len(results) + 1 /\ Processed' = Processed + 1]_vars

\* two instructions are done and the loop is about to end
C7_Witness ==
    /\ pc = "for"
    /\ it = 2
    /\ Len(results) = 2
    /\ Processed = 2

\* of the two locals of run_evaluation, the one that takes the result of
\* the _evaluate_instruction in progress
ResultOf(r1, r2) == IF version = "v1" THEN r1 ELSE r2

\* C8: the outcome _evaluate_instruction returns carries metrics exactly
\* when the call returned a response without error and the instruction has
\* the expected_response key; a record stores a MetricSet for a version
\* exactly when that version succeeded and the instruction has the key, and
\* the empty mapping otherwise.
C8_MetricsIffSucceededAndExpected ==
    /\ [][(pc = "returned" /\ pc' \in {"call", "append"}) =>
            (("metrics" \in DOMAIN ResultOf(result_v1', result_v2')) <=>
                (ret[1] # None /\ ret[2] = None /\ HasExpected(it)))]_vars
    /\ [](\A i \in 1..Len(results) :
            /\ (results[i].v1_metrics # <<>>) <=> (results[i].v1_success /\ HasExpected(i))
            /\ (results[i].v2_metrics # <<>>) <=> (results[i].v2_success /\ HasExpected(i)))

\* one record of an instruction with a reference: v1 succeeded and has a
\* MetricSet, v2 failed and has none; one of an instruction without
\* reference: both succeeded, neither has a MetricSet
C8_Witness ==
    /\ Len(results) = 2
    /\ HasExpected(1) /\ ~HasExpected(2)
    /\ results[1].v1_success /\ results[1].v1_metrics # <<>>
    /\ ~results[1].v2_success /\ results[1].v2_metrics = <<>>
    /\ results[2].v1_success /\ results[2].v1_metrics = <<>>
    /\ results[2].v2_success /\ results[2].v2_metrics = <<>>

\* C9 as claimed: in every record the MetricSet of each version is absent
\* when the instruction has no expected_response and present whenever it
\* has one.
C9_PresentWheneverExpected ==
    \A i \in 1..Len(results) :
        /\ ~HasExpected(i) => results[i].v1_metrics = <<>> /\ results[i].v2_metrics = <<>>
        /\ HasExpected(i) => results[i].v1_metrics # <<>> /\ results[i].v2_metrics # <<>>

\* a mapping that holds every field of a MetricSet
IsMetricSet(m) == DOMAIN m = MetricFields \cup {"response_time"}

\* C9 as amended: in every record the MetricSet of each version is absent
\* when the instruction has no expected_response, and is a full MetricSet
\* when the instruction has one and the call of that version succeeded.
C9_PresentWhenExpectedAndSucceeded ==
    \A i \in 1..Len(results) :
        /\ ~HasExpected(i) => results[i].v1_metrics = <<>> /\ results[i].v2_metrics = <<>>
        /\ (HasExpected(i) /\ results[i].v1_success) => IsMetricSet(results[i].v1_metrics)
        /\ (HasExpected(i) /\ results[i].v2_success) => IsMetricSet(results[i].v2_metrics)

\* an instruction with a reference whose v1 reply was the empty string: the
\* MetricSet is stored, zero-valued
C9_Witness ==
    /\ Len(results) >= 1
    /\ HasExpected(1)
    /\ results[1].v1_success
    /\ IsMetricSet(results[1].v1_metrics)
    /\ results[1].v1_metrics.response_length = 0
    /\ results[1].v1_metrics.jaccard_similarity = <<0, 2>>
    /\ results[1].v1_metrics.rouge_l = Zero

\* C10: when a call returns the terminal error of exhausted retries,
\* _evaluate_instruction returns success = false with that error, the next
\* step of the batch is the v2 call of the same instruction (after v1) or
\* the append of the record (after v2), whose flag for a failed version is
\* false; and a completed run has entered both calls of every instruction.
C10_ExhaustedCallDoesNotStopBatch ==
    /\ [][(pc = "returned" /\ ret[2] # None) =>
            /\ ResultOf(result_v1', result_v2').success = FALSE
            /\ ResultOf(result_v1', result_v2').error = <<"Error with", version, ret[2]>>
            /\ it' = it
            /\ IF version = "v1"
               THEN pc' = "call" /\ version' = "v2"
               ELSE pc' = "append"]_vars
    /\ [][pc = "append" =>
            /\ pc' = "for"
            /\ "error" \in DOMAIN result_v1 => results'[Len(results')].v1_success = FALSE
            /\ "error" \in DOMAIN result_v2 => results'[Len(results')].v2_success = FALSE]_vars
    /\ [](pc \in {"save", "done"} =>
            calls = (1..Len(instructions)) \X Versions)

\* the v1 call of the first of two instructions exhausted three retries and
\* the v2 call of that instruction is about to start
C10_Witness ==
    /\ Len(instructions) = 2
    /\ it = 1
    /\ pc = "call"
    /\ version = "v2"
    /\ config.max_retries = 3
    /\ "error" \in DOMAIN result_v1
    /\ result_v1.error[3] = ErrorMessage(3, "Timeout")


\* C11: no failure after construction stops run_evaluation: the run never
\* ends by an exception that leaves instructions unprocessed and the
\* results unsaved.
C11_RunNeverAborts ==
    pc # "raised"


----------------------------------------------------------------------------
(* main: construction, run and save, with interrupts, over the artifacts  *)
(* of an earlier run                                                       *)

MaxRetriesMain == 1

\* a required variable is unset (os.getenv gives None), empty, or set
MainConfigs ==
    [agent_v1_endpoint : {None, <<>>, Endpoint1},
     agent_v2_endpoint : {None, <<>>, Endpoint2},
     api_key_v1 : {None, <<>>, Key1},
     api_key_v2 : {None, <<>>, Key2},
     max_retries : 0..MaxRetriesMain, retry_delay : {5}]

RequiredFields == {"id", "type", "title", "description", "difficulty"}

\* instruction i without one of its keys
Without(instruction, field) ==
    [k \in DOMAIN instruction \ {field} |-> instruction[k]]

\* the objects an instruction list can hold at position i
ListedAt(i) ==
    InstructionsAt(i)
    \cup {Without(Instruction(i, FALSE, None), f) : f \in RequiredFields}

\* the instruction lists of a suite document
Listed ==
    UNION {{s \in [1..k -> UNION {ListedAt(i) : i \in 1..k}] :
               \A i \in 1..k : s[i] \in ListedAt(i)} : k \in 0..MaxInstructions}

\* the states of the instructions file
SuiteFiles ==
    {Absent, InvalidJson, Complete(JsonArray),
     Complete(JsonObject([tasks |-> <<>>]))}
    \cup {Complete(JsonObject([instructions |-> l])) : l \in Listed}

\* the records an earlier run stored
PriorResults ==
    <<ResultRecord(Instruction(0, FALSE, None), [success |-> TRUE], [success |-> FALSE])>>

PriorJson ==
    Complete([timestamp |-> <<"before">>,
              config |-> _get_sanitized_config(CHOOSE c \in Configs : TRUE),
              results |-> PriorResults])

PriorCsv == Complete(Flattened(PriorResults))

PriorReport ==
    Complete([generated_at |-> <<"before">>]
                 @@ ReportDocument(CHOOSE c \in Configs : TRUE, PriorResults))

PriorCharts == Complete(ChartData(PriorResults))

\* the runs main can make: any instructions file under a configuration that
\* is complete; under one that is not, a file that is absent or well-formed
MainInputs ==
    {<<c, f>> \in MainConfigs \X SuiteFiles :
        \/ MissingVars(c) = {}
        \/ /\ c.max_retries = MaxRetriesMain
           /\ f \in {Absent, Complete(JsonObject([instructions |-> <<>>])),
                      Complete(JsonObject(
                          [instructions |-> <<Instruction(1, FALSE, None)>>]))}}

\* the suite files over which a run is started in a results_dir that holds
\* the artifacts of a prior run: those of at most one instruction
OverPrior(file) ==
    IF file.state # "complete" THEN TRUE
    ELSE IF file.content.kind # "object" THEN TRUE
    ELSE Len(Get(file.content.members, "instructions", <<>>)) <= 1

InitMain ==
    /\ \E input \in MainInputs : config = input[1] /\ suite_file = input[2]
    /\ \/ /\ json_file = Absent /\ csv_file = Absent
          /\ report_file = Absent /\ chart_files = Absent
       \/ /\ OverPrior(suite_file)
          /\ json_file = PriorJson /\ csv_file = PriorCsv
          /\ report_file = PriorReport /\ chart_files = PriorCharts
    /\ instructions = <<>>
    /\ results = <<>>
    /\ pc = "new"
    /\ it = 0
    /\ version = "v1"
    /\ attempt = 0
    /\ last_error = None
    /\ wait_time = 0
    /\ ret = <<None, None>>
    /\ result_v1 = Unbound
    /\ result_v2 = Unbound
    /\ save_calls = 0
    /\ trace = <<>>
    /\ calls = {}
    /\ finished = {}
    /\ score_in = Unbound
    /\ score_out = Unbound

NextMain ==
    \/ ValidateConfig
    \/ LoadInstructions
    \/ Next
    \/ GenerateReport
    \/ \E outcome \in {"saved", "failed_before", "failed_during"} :
          GenerateVisualizations(outcome)
    \/ OpenReport
    \/ \E raises \in BOOLEAN : WriteReport(raises)
    \/ Interrupt

SpecMain == InitMain /\ [][NextMain]_vars


----------------------------------------------------------------------------
(* Claims about main: construction, interrupts and the stored artifacts *)

\* main has left its try block by an exception or by KeyboardInterrupt
Stopped == pc \in {"interrupted", "raised", "config_error", "load_error"}

\* C12: until _save_results is entered no step writes or alters a result
\* artifact, so a run that is interrupted or aborts before that point
\* leaves the structured and the tabular artifact as the prior run left them.
C12_NoWriteBeforeSave ==
    [][save_calls' = 0 => UNCHANGED <<json_file, csv_file>>]_vars

\* a run interrupted between backend calls, over the artifacts of a prior run
C12_Witness ==
    /\ pc = "interrupted"
    /\ save_calls = 0
    /\ calls # {}
    /\ json_file = PriorJson
    /\ csv_file = PriorCsv


\* C13: in every state, an interrupt inside _save_results included, each
\* stored artifact is what the prior run left (nothing, or its complete
\* results) or the complete results of the current run; it is never empty,
\* truncated or partly written.
C13_ArtifactPriorOrComplete ==
    /\ json_file \in {Absent, PriorJson, Complete(JsonDocument(config, results))}
    /\ csv_file \in {Absent, PriorCsv, Complete(Flattened(results))}


\* the fields of the configuration that hold text
TextFields == {"agent_v1_endpoint", "agent_v2_endpoint", "api_key_v1", "api_key_v2"}

\* C14: the configuration written to the results document has api_key_v1
\* and api_key_v2 replaced by "***REDACTED***", and none of its fields holds
\* a credential value the evaluator was constructed with.
C14_CredentialsRedacted ==
    json_file.state = "complete" =>
        LET written == json_file.content.config
        IN  /\ written.api_key_v1 = Redacted
            /\ written.api_key_v2 = Redacted
            /\ \A k \in TextFields \cap DOMAIN written :
                   written[k] \notin {config.api_key_v1, config.api_key_v2}

\* the document of a finished run, written under two real credentials
C14_Witness ==
    /\ json_file.state = "complete"
    /\ json_file.content.results = results
    /\ Len(results) > 0
    /\ config.api_key_v1 = Key1
    /\ config.api_key_v2 = Key2


\* one of the four required settings is unset or the empty string
SettingMissing ==
    \E var \in {"agent_v1_endpoint", "agent_v2_endpoint", "api_key_v1", "api_key_v2"} :
        config[var] = None \/ Len(config[var]) = 0

\* C15: with an endpoint or a credential missing or empty the constructor
\* raises in _validate_config: the suite is never loaded, no backend call is
\* made and run_evaluation never starts.
C15_MissingSettingStopsConstruction ==
    SettingMissing =>
        /\ pc \in {"new", "config_error", "interrupted"}
        /\ instructions = <<>>
        /\ calls = {}
        /\ trace = <<>>
        /\ save_calls = 0

\* the constructor has raised over an empty credential, with a suite of one
\* instruction on disk
C15_Witness ==
    /\ pc = "config_error"
    /\ config.api_key_v2 = <<>>
    /\ config.agent_v1_endpoint = Endpoint1
    /\ suite_file = Complete(JsonObject([instructions |-> <<Instruction(1, FALSE, None)>>]))


\* the suite on disk is missing or malformed: no file, no JSON, no
\* instruction list, or an instruction without one of the required fields
SuiteMalformed ==
    \/ suite_file.state # "complete"
    \/ suite_file.content.kind # "object"
    \/ "instructions" \notin DOMAIN suite_file.content.members
    \/ \E i \in DOMAIN suite_file.content.members.instructions :
           ~(RequiredFields \subseteq DOMAIN suite_file.content.members.instructions[i])

\* C16: over a missing or malformed suite the run ends by a fatal error, and
\* no request is sent to a backend before it.
C16_MalformedSuiteFatalBeforeCalls ==
    SuiteMalformed =>
        /\ \A k \in DOMAIN trace : trace[k][1] # "post"
        /\ pc # "done"


----------------------------------------------------------------------------
(* Claims about the order of the records *)

\* C17: the records are stored in the order of the suite: results[i] is the
\* record of the i-th instruction, whichever calls succeeded or failed.
C17_RecordsInSuiteOrder ==
    /\ Len(results) <= Len(instructions)
    /\ \A i \in DOMAIN results : results[i].instruction_id = instructions[i].id

\* a finished run of two instructions, the first failed on both backends and
\* the second answered by both
C17_Witness ==
    /\ pc = "done"
    /\ Len(results) = 2
    /\ ~results[1].v1_success /\ ~results[1].v2_success
    /\ results[2].v1_success /\ results[2].v2_success
    /\ results[1].instruction_id = instructions[1].id
    /\ results[2].instruction_id = instructions[2].id
    /\ instructions[1].id # instructions[2].id


----------------------------------------------------------------------------
(* The metric computation taken on its own: one successful reply scored    *)
(* against one expected_response, over all short texts                     *)

MaxLen == 2

\* the characters of the texts: a letter in both cases, another letter, a blank
Chars == {"a", "b", "B", " "}

\* "the quick brown fox"
ExampleResponse ==
    <<"t", "h", "e", " ", "q", "u", "i", "c", "k", " ", "b", "r", "o", "w", "n", " ", "f", "o", "x">>

\* "the quick brown dog"
ExampleExpected ==
    <<"t", "h", "e", " ", "q", "u", "i", "c", "k", " ", "b", "r", "o", "w", "n", " ", "d", "o", "g">>

\* the texts of a reply and of an expected_response
Texts ==
    UNION {[1..n -> Chars] : n \in 0..MaxLen} \cup {ExampleResponse, ExampleExpected}

InitMetrics ==
    /\ score_in \in [response : Texts, expected : Texts,
                      bleu_raises : BOOLEAN, rouge_raises : BOOLEAN]
    /\ score_out = Unbound
    /\ pc = "metrics"
    /\ config \in {c \in Configs : c.max_retries = 0 /\ c.retry_delay = 1}
    /\ instructions = <<>>
    /\ results = <<>>
    /\ it = 0
    /\ version = "v1"
    /\ attempt = 0
    /\ last_error = None
    /\ wait_time = 0
    /\ ret = <<None, None>>
    /\ result_v1 = Unbound
    /\ result_v2 = Unbound
    /\ save_calls = 0
    /\ trace = <<>>
    /\ calls = {}
    /\ finished = {}
    /\ suite_file = Absent
    /\ json_file = Absent
    /\ csv_file = Absent
    /\ report_file = Absent
    /\ chart_files = Absent

\* the success branch of _evaluate_instruction on the reply: the token lists
\* and the word sets are computed and _calculate_metrics is called
Score ==
    /\ pc = "metrics"
    /\ pc' = "scored"
    /\ score_out' =
           [metrics |-> EvaluationOutcome(Instruction(1, TRUE, score_in.expected), "v1",
                                          score_in.response, None,
                                          score_in.bleu_raises,
                                          score_in.rouge_raises).metrics,
            warnings |-> MetricWarnings(score_in.response, score_in.expected,
                                        score_in.bleu_raises, score_in.rouge_raises)]
    /\ UNCHANGED <<config, instructions, results, it, version, attempt, last_error,
                   wait_time, ret, result_v1, result_v2, save_calls, trace, calls,
                   finished, fileVars, score_in>>

NextMetrics == Score

MetricsSpec == InitMetrics /\ [][NextMetrics]_vars


----------------------------------------------------------------------------
(* Claims about the metrics *)

\* the text is empty or holds nothing but whitespace
Blank(text) == \A i \in DOMAIN text : text[i] = " "

\* the MetricSet of the same texts when neither library call raises
NormalMetrics ==
    EvaluationOutcome(Instruction(1, TRUE, score_in.expected), "v1",
                      score_in.response, None, FALSE, FALSE).metrics

RougeFields == {"rouge_1", "rouge_2", "rouge_l"}

\* C18: when sentence_bleu or get_scores raises inside _calculate_metrics,
\* the metric that failed is 0.0 and a warning is logged for it, and the
\* MetricSet still holds every field, each one that did not fail with the
\* value it has when nothing raises.
C18_FailedMetricZeroOthersKept ==
    pc = "scored" =>
        LET got == score_out.metrics
            bleu_failed == score_in.bleu_raises
            rouge_failed == /\ score_in.rouge_raises
                            /\ ~Blank(score_in.response)
                            /\ ~Blank(score_in.expected)
            failed == (IF bleu_failed THEN {"bleu_score"} ELSE {})
                      \cup (IF rouge_failed THEN RougeFields ELSE {})
        IN  /\ MetricFields \subseteq DOMAIN got
            /\ \A f \in failed : got[f] = Zero
            /\ bleu_failed => "Error calculating BLEU score" \in score_out.warnings
            /\ rouge_failed => "Error calculating ROUGE scores" \in score_out.warnings
            /\ \A f \in MetricFields \ failed : got[f] = NormalMetrics[f]

\* sentence_bleu raised on two texts with a common word: BLEU is 0.0 and
\* the ROUGE scores and the Jaccard similarity are the computed ones
C18_Witness ==
    /\ pc = "scored"
    /\ score_in.bleu_raises
    /\ ~score_in.rouge_raises
    /\ score_out.metrics.bleu_score = Zero
    /\ NormalMetrics.bleu_score # Zero
    /\ score_out.metrics.rouge_1 = <<"rouge-1", score_in.response, score_in.expected>>
    /\ score_out.metrics.jaccard_similarity = <<1, 1>>
    /\ score_out.warnings = {"Error calculating BLEU score"}


\* C19: rouge_1, rouge_2, rouge_l and bleu_score are each 0.0 whenever the
\* response or the expected reference is empty or whitespace-only.
C19_BlankTextScoresZero ==
    (pc = "scored" /\ (Blank(score_in.response) \/ Blank(score_in.expected))) =>
        /\ score_out.metrics.bleu_score = Zero
        /\ \A f \in RougeFields : score_out.metrics[f] = Zero

\* a whitespace-only reply scored against a reference of one word, neither
\* library call raising
C19_Witness ==
    /\ pc = "scored"
    /\ score_in.response = <<" ", " ">>
    /\ score_in.expected = <<"a">>
    /\ ~score_in.bleu_raises
    /\ ~score_in.rouge_raises
    /\ score_out.metrics.bleu_score = Zero
    /\ score_out.metrics.rouge_l = Zero
    /\ score_out.warnings = {}


\* the set of the lowercased words of a text: its maximal runs of characters
\* that are not whitespace, each character in lower case
WordSet(text) ==
    LET low == [i \in DOMAIN text |-> Lower(text[i])]
        runs == {p \in (DOMAIN low) \X (DOMAIN low) :
                    /\ p[1] <= p[2]
                    /\ \A k \in p[1]..p[2] : low[k] # " "
                    /\ p[1] = 1 \/ low[p[1] - 1] = " "
                    /\ p[2] = Len(low) \/ low[p[2] + 1] = " "}
    IN  {SubSeq(low, p[1], p[2]) : p \in runs}

\* C20: jaccard_similarity is |A \cap B| / |A \cup B| over the lowercased
\* word sets A of the response and B of the reference, lies in [0, 1], is 0
\* when the union is empty, and is 3/5 for "the quick brown fox" against
\* "the quick brown dog".
C20_JaccardOfWordSets ==
    pc = "scored" =>
        LET A == WordSet(score_in.response)
            B == WordSet(score_in.expected)
            jaccard == score_out.metrics.jaccard_similarity
        IN  /\ jaccard = IF A \cup B = {} THEN Zero
                         ELSE <<Cardinality(A \cap B), Cardinality(A \cup B)>>
            /\ 0 <= jaccard[1] /\ jaccard[1] <= jaccard[2] /\ jaccard[2] > 0
            /\ (score_in.response = ExampleResponse
                    /\ score_in.expected = ExampleExpected) => jaccard = <<3, 5>>

\* the example of the claim has been scored
C20_Witness ==
    /\ pc = "scored"
    /\ score_in.response = ExampleResponse
    /\ score_in.expected = ExampleExpected
    /\ score_out.metrics.jaccard_similarity = <<3, 5>>


----------------------------------------------------------------------------
(* Claims about the report *)

\* the records whose MetricSet of version v holds the metric
Holding(rs, metric, v) ==
    {i \in DOMAIN rs : metric \in DOMAIN rs[i][MetricsKey(v)]}

RECURSIVE MetricTotal(_, _, _, _)
\* the sum of the metric of version v over the records of S
MetricTotal(rs, metric, v, S) ==
    IF S = {} THEN 0
    ELSE LET i == CHOOSE j \in S : TRUE
         IN  Number(rs[i][MetricsKey(v)][metric]) + MetricTotal(rs, metric, v, S \ {i})

\* the float c is the float b minus the float a
IsDifference(c, b, a) ==
    c[1] * b[2] * a[2] = (b[1] * a[2] - a[1] * b[2]) * c[2]

\* C21: in a written report the success rate of a version is the number of
\* records with its success flag true over the number of records, the
\* average of a metric is its sum over exactly the records whose MetricSet
\* of that version holds it over their number (0.0 when there is none), and
\* every difference is the v2 aggregate minus the v1 aggregate.
C21_ReportAggregates ==
    (pc = "exit" /\ results # <<>>) =>
        LET doc == report_file.content
            successes(key) == Cardinality({i \in DOMAIN results : results[i][key]})
        IN  /\ doc.v1_rate = <<successes("v1_success"), Len(results)>>
            /\ doc.v2_rate = <<successes("v2_success"), Len(results)>>
            /\ IsDifference(doc.improvement, doc.v2_rate, doc.v1_rate)
            /\ \A metric \in MetricsToAvg :
                  /\ \A v \in Versions :
                        LET holding == Holding(results, metric, v)
                            average == doc.averages[metric][v]
                        IN  IF holding = {} THEN average = Zero
                            ELSE /\ average[2] = Cardinality(holding)
                                 /\ average[1] = MetricTotal(results, metric, v, holding)
                  /\ IsDifference(doc.averages[metric].diff,
                                  doc.averages[metric].v2, doc.averages[metric].v1)

\* the report of two records: agent_v1 was scored on one of them only and
\* agent_v2 on both, with different Jaccard similarities
C21_Witness ==
    /\ pc = "exit"
    /\ Len(results) = 2
    /\ report_file = Complete(ReportDocument(config, results))
    /\ Cardinality(Holding(results, "jaccard_similarity", "v1")) = 1
    /\ report_file.content.averages.jaccard_similarity.v1 = <<1000, 1>>
    /\ report_file.content.averages.jaccard_similarity.v2 = <<1000, 2>>
    /\ report_file.content.v1_rate = <<1, 2>>
    /\ report_file.content.v2_rate = <<2, 2>>


\* the positions inside generate_report
ReportPcs == {"done", "charts", "report_open", "report_write"}

\* C22: no step of generate_report, whether it goes on, fails or is the
\* last one, writes, truncates or deletes the results artifacts or changes
\* self.results.
C22_ReportLeavesResultsAlone ==
    [][(pc \in ReportPcs) => (UNCHANGED <<json_file, csv_file, results>>)]_vars

\* generate_report has raised after a chart failed too: the results and
\* both dumps are those of the save
C22_Witness ==
    /\ pc = "raised"
    /\ report_file = Truncated
    /\ chart_files = Truncated
    /\ Len(results) > 0
    /\ json_file = Complete(JsonDocument(config, results))
    /\ csv_file = Complete(Flattened(results))


----------------------------------------------------------------------------
(* Claims about the two dumps after the save *)

\* _save_results has returned
Saved == save_calls = 1 /\ pc \in {"done", "exit"} \cup ReportPcs

\* C23: once _save_results has completed, the structured dump holds one
\* record per instruction and the tabular dump one row per record in the
\* same order, also for an empty suite and over the artifacts of a prior run
\* (a tabular dump that does not exist counts as one without rows).
C23_BothDumpsDescribeRun ==
    Saved =>
        /\ json_file.state = "complete"
        /\ Len(json_file.content.results) = Len(instructions)
        /\ \/ csv_file = Absent /\ results = <<>>
           \/ /\ csv_file.state = "complete"
              /\ Len(csv_file.content) = Len(results)
              /\ \A i \in DOMAIN results :
                    csv_file.content[i][<<"", "instruction_id">>]
                        = results[i].instruction_id


----------------------------------------------------------------------------
(* Claims about the evaluation of one instruction *)

\* how many times expected_response.split() and
\* set(expected_response.lower().split()) have run for the recorded
\* instruction i: once in every _evaluate_instruction that succeeded on an
\* instruction with the key
ExpectedSplits(i) ==
    IF HasExpected(i)
    THEN Cardinality({v \in Versions :
                         results[i][IF v = "v1" THEN "v1_success" ELSE "v2_success"]})
    ELSE 0

\* C24: the token list and the word set of an instruction's expected
\* reference are computed at most once for that instruction, and never for
\* an instruction without expected_response.
C24_ExpectedDerivedOnce ==
    \A i \in DOMAIN results :
        /\ ExpectedSplits(i) <= 1
        /\ ~HasExpected(i) => ExpectedSplits(i) = 0


\* C25: the success flag _evaluate_instruction returns for a version, and
\* the one the record stores, is true exactly when _call_agent_with_retry
\* returned a response that is not null together with a null error,
\* whatever the metrics, the expected_response and the other version did.
C25_SuccessIffResponseWithoutError ==
    /\ [][(pc = "returned" /\ pc' \in {"call", "append"}) =>
            (ResultOf(result_v1', result_v2').success
                <=> (ret[1] # None /\ ret[2] = None))]_vars
    /\ [][(pc = "append" /\ pc' = "for") =>
            /\ results'[Len(results')].v1_success = result_v1.success
            /\ results'[Len(results')].v2_success = result_v2.success]_vars

\* two records with opposite flags: without a reference v1 succeeded and v2
\* failed, with a reference v1 failed and v2 succeeded and was scored
C25_Witness ==
    /\ Len(results) = 2
    /\ ~HasExpected(1) /\ HasExpected(2)
    /\ results[1].v1_success /\ ~results[1].v2_success
    /\ ~results[2].v1_success /\ results[2].v2_success
    /\ results[2].v2_metrics # <<>>


\* the sequence p is an initial part of the sequence q
IsPrefix(p, q) == Len(p) <= Len(q) /\ \A i \in DOMAIN p : q[i] = p[i]

\* C26: self.results is append-only: every step of the run, of the save and
\* of the report leaves the records already stored where and as they are.
C26_ResultsAppendOnly ==
    [][IsPrefix(results, results')]_vars

\* a run of two instructions that has saved and written its report
C26_Witness ==
    /\ pc = "exit"
    /\ Len(results) = 2
    /\ save_calls = 1
    /\ csv_file = Complete(Flattened(results))
    /\ report_file = Complete(ReportDocument(config, results))


----------------------------------------------------------------------------
(* Claims about the attempts and the waits of one call *)

\* C27: a call that has failed all its N >= 1 requests has waited exactly
\* N - 1 times, and its last request was not followed by a wait before the
\* terminal error was returned.
C27_NoWaitAfterLastAttempt ==
    (pc = "returned" /\ ret[2] # None /\ NumPosts >= 1) =>
        /\ NumSleeps = NumPosts - 1
        /\ trace[Len(trace)][1] = "post"


\* C28: a call returns at its first successful request: when request k
\* (counted from 0, k < max_retries) is the first to succeed, k + 1 requests
\* were sent and k waits made, the reply of request k is returned with a
\* null error, and the call sends and waits no more.
C28_StopsAtFirstSuccess ==
    /\ [](pc = "returned" /\ ret[2] = None =>
            LET k == trace[Len(trace)][2]
            IN  /\ trace[Len(trace)][1] = "post"
                /\ k < config.max_retries
                /\ NumPosts = k + 1
                /\ NumSleeps = k
                /\ \A j \in 1..(Len(trace) - 1) :
                      trace[j][1] = "post" => trace[j + 1][1] = "sleep"
                /\ ret[1] \in Contents)
    /\ [][pc = "returned" => (trace' = trace \/ trace' = <<>>)]_vars

\* the third request of a call (k = 2) was the first to succeed
C28_Witness ==
    /\ pc = "returned"
    /\ ret = <<(<<"A", " ", "b">>), None>>
    /\ Len(trace) = 5
    /\ trace[5][1] = "post" /\ trace[5][2] = 2
    /\ NumSleeps = 2


\* C29: every request of the call in progress is sent to the endpoint the
\* configuration gives for the version of that call: agent_v1_endpoint for
\* v1, agent_v2_endpoint for v2.
C29_RequestGoesToConfiguredEndpoint ==
    \A j \in DOMAIN trace :
        trace[j][1] = "post" =>
            trace[j][3] = IF version = "v1" THEN config.agent_v1_endpoint
                                            ELSE config.agent_v2_endpoint


----------------------------------------------------------------------------
(* Claims about the termination of the run *)

\* C30: with every request returning, run_evaluation over K instructions
\* with max_retries = N sends at most N requests in each of at most 2 * K
\* calls, and it stops only once it has reached _save_results.
C30_StopsOnlyAfterSave ==
    /\ NumPosts <= config.max_retries
    /\ Cardinality(calls) <= 2 * Len(instructions)
    /\ ~(ENABLED Next) => save_calls = 1

====
